---- MODULE Spec2Model ----
(***************************************************************************)
(* Model of package transmission (lipixun/gtransmission): the URN parser,  *)
(* the number-range parser, the magnet-link parser and its torrent         *)
(* specialisation.                                                         *)
(*                                                                         *)
(* A Go string is modelled as the sequence of its bytes (ASCII codes), so  *)
(* that splitting, lower-casing, integer parsing, percent-decoding, hex    *)
(* and base32 decoding are computed as the code computes them.             *)
(***************************************************************************)
EXTENDS Integers, Sequences, FiniteSets, TLC

VARIABLES
    numIn,      \* argument of ParseNumRangeFromString
    numOut,     \* its return value [r, err], or NotCalled
    urnIn,      \* argument of ParseUrn
    urnOut,     \* its return value [u, err], or NotCalled
    uri,        \* argument uri of ParseMagnetLink
    strict,     \* option.Strict after the options were applied
    ret,        \* return value [link, err] of ParseMagnetLink, or NotCalled
    ret2,       \* return value of a second run on the same arguments
    torrent     \* return value [link, err] of AsTorrent, or NotCalled

vars == <<numIn, numOut, urnIn, urnOut, uri, strict, ret, ret2, torrent>>

-----------------------------------------------------------------------------
(* Bounds of the model *)

\* numbers of the number-range inputs range over -MaxNum..MaxNum
MaxNum == 5
\* most colon-separated segments of a ParseUrn input
MaxSegs == 4
\* most key=value pairs in the query of a magnet uri
MaxPairs == 2
\* most xt values of a torrent magnet uri
MaxXt == 2

-----------------------------------------------------------------------------
(* Go strings as byte sequences *)

Printable ==
    << " ", "!", "\"", "#", "$", "%", "&", "'", "(", ")", "*", "+", ",", "-",
       ".", "/", "0", "1", "2", "3", "4", "5", "6", "7", "8", "9", ":", ";",
       "<", "=", ">", "?", "@", "A", "B", "C", "D", "E", "F", "G", "H", "I",
       "J", "K", "L", "M", "N", "O", "P", "Q", "R", "S", "T", "U", "V", "W",
       "X", "Y", "Z", "[", "\\", "]", "^", "_", "BACKTICK", "a", "b", "c", "d", "e",
       "f", "g", "h", "i", "j", "k", "l", "m", "n", "o", "p", "q", "r", "s",
       "t", "u", "v", "w", "x", "y", "z", "{", "|", "}", "~" >>

\* the byte of a printable ASCII character
Ord(c) == 31 + (CHOOSE i \in 1..Len(Printable) : Printable[i] = c)

\* the Go string with the given characters
Str(cs) == [i \in 1..Len(cs) |-> Ord(cs[i])]

\* s repeated n times (strings.Repeat), used to build the inputs
Repeat(s, n) == [i \in 1..(n * Len(s)) |-> s[((i - 1) % Len(s)) + 1]]

Empty == << >>

\* strings.ToLower on ASCII
LowerByte(b) == IF b >= Ord("A") /\ b <= Ord("Z") THEN b + (Ord("a") - Ord("A")) ELSE b
ToLower(s) == [i \in 1..Len(s) |-> LowerByte(s[i])]

\* strings.HasPrefix
HasPrefix(s, p) == Len(s) >= Len(p) /\ SubSeq(s, 1, Len(p)) = p

\* the positions of byte sep in s
SepPositions(s, sep) == {i \in 1..Len(s) : s[i] = sep}

\* the k-th smallest element of a set of positions
NthPosition(P, k) == CHOOSE p \in P : Cardinality({q \in P : q < p}) = k - 1

\* strings.Split(s, sep) for a one-byte separator: always at least one segment
Split(s, sep) ==
    LET P == SepPositions(s, sep)
        n == Cardinality(P)
        lo(k) == IF k = 1 THEN 1 ELSE NthPosition(P, k - 1) + 1
        hi(k) == IF k = n + 1 THEN Len(s) ELSE NthPosition(P, k) - 1
    IN  [k \in 1..(n + 1) |-> SubSeq(s, lo(k), hi(k))]

\* segs joined by the byte sep (strings.Join), used to build the inputs
RECURSIVE Join(_, _)
Join(segs, sep) ==
    IF Len(segs) = 0 THEN Empty
    ELSE IF Len(segs) = 1 THEN segs[1]
    ELSE segs[1] \o <<sep>> \o Join(Tail(segs), sep)

IsDigit(b) == b >= Ord("0") /\ b <= Ord("9")

RECURSIVE DigitsValue(_)
DigitsValue(ds) ==
    IF Len(ds) = 0 THEN 0
    ELSE 10 * DigitsValue(SubSeq(ds, 1, Len(ds) - 1)) + (ds[Len(ds)] - Ord("0"))

\* the digits of 2^63 - 1 and of 2^63, the largest magnitudes of an int
IntMaxDigits ==
    Str(<<"9", "2", "2", "3", "3", "7", "2", "0", "3", "6", "8", "5", "4", "7", "7", "5",
          "8", "0", "7">>)
IntMinDigits ==
    Str(<<"9", "2", "2", "3", "3", "7", "2", "0", "3", "6", "8", "5", "4", "7", "7", "5",
          "8", "0", "8">>)

\* a digit string without its leading zeros
Significant(ds) ==
    LET nz == {i \in 1..Len(ds) : ds[i] # Ord("0")}
    IN  IF nz = {} THEN Empty ELSE SubSeq(ds, NthPosition(nz, 1), Len(ds))

\* the magnitude of the digit string is beyond the range of a 64-bit int
ExceedsInt(ds, negative) ==
    LET z   == Significant(ds)
        lim == IF negative THEN IntMinDigits ELSE IntMaxDigits
    IN  \/ Len(z) > Len(lim)
        \/ /\ Len(z) = Len(lim)
           /\ \E i \in 1..Len(z) : z[i] > lim[i] /\ \A j \in 1..(i - 1) : z[j] = lim[j]

\* strconv.Atoi: an optional sign, then one or more decimal digits, of a
\* value in the range of int
Atoi(s) ==
    LET signed   == Len(s) > 0 /\ s[1] \in {Ord("+"), Ord("-")}
        negative == signed /\ s[1] = Ord("-")
        ds       == IF signed THEN Tail(s) ELSE s
    IN  IF Len(ds) = 0 \/ \E i \in 1..Len(ds) : ~IsDigit(ds[i])
        THEN [num |-> 0, err |-> "NumError"]
        ELSE IF ExceedsInt(ds, negative)
        THEN [num |-> 0, err |-> "NumError"]
        ELSE [num |-> IF negative THEN 0 - DigitsValue(ds) ELSE DigitsValue(ds),
              err |-> "nil"]

RECURSIVE NatDigits(_)
NatDigits(n) ==
    IF n < 10 THEN <<Ord("0") + n>>
    ELSE NatDigits(n \div 10) \o <<Ord("0") + (n % 10)>>

\* strconv.Itoa: the decimal string of an integer
Itoa(n) == IF n < 0 THEN <<Ord("-")>> \o NatDigits(0 - n) ELSE NatDigits(n)

NotCalled == [called |-> FALSE]

-----------------------------------------------------------------------------
(* num_range.go *)

NumRange(start, end, includeStart, includeEnd) ==
    [Start |-> start, End |-> end, IncludeStart |-> includeStart, IncludeEnd |-> includeEnd]

\* the zero value of the named result r
ZeroNumRange == NumRange(0, 0, FALSE, FALSE)

NewSingleNumRange(num) == NumRange(num, num, TRUE, TRUE)

ErrMalformedNumRange == "Malformed num range string"

\* the return statement after the two-segment branch: the branch does not
\* return, so control reaches the trailing error assignment
NumRangeTwoSegmentsReturn(r) == [r |-> r, err |-> ErrMalformedNumRange]

\* the one-segment branch with r.End left unset
NumRangeEndUnset(num) == [r |-> NumRange(num, 0, TRUE, TRUE), err |-> "nil"]

\* the assignments and the return of the one-segment branch
NumRangeOneSegmentReturn(num) == [r |-> NumRange(num, num, TRUE, TRUE), err |-> "nil"]

ParseNumRangeFromString(s) ==
    LET strs == Split(s, Ord("-"))
    IN  IF Len(strs) = 1 THEN
            LET a == Atoi(s)
            IN  IF a.err # "nil" THEN [r |-> ZeroNumRange, err |-> a.err]
                ELSE NumRangeOneSegmentReturn(a.num)
        ELSE IF Len(strs) = 2 THEN
            LET a == Atoi(strs[1])
                b == Atoi(strs[2])
            IN  IF a.err # "nil" THEN [r |-> ZeroNumRange, err |-> a.err]
                ELSE IF b.err # "nil"
                     THEN [r |-> NumRange(a.num, 0, TRUE, FALSE), err |-> b.err]
                ELSE NumRangeTwoSegmentsReturn(NumRange(a.num, b.num, TRUE, TRUE))
        ELSE [r |-> ZeroNumRange, err |-> ErrMalformedNumRange]

-----------------------------------------------------------------------------
(* urn.go *)

ErrMalformedUrn == "Malformed urn"

Urn(nid, nss) == [Nid |-> nid, Nss |-> nss]

ZeroUrn == Urn(Empty, Empty)

\* the test on the segment count
UrnSegmentCountOk(strs) == Len(strs) = 3

\* the scheme compared without lower-casing it
UrnSchemeCaseSensitive(scheme) == scheme = Str(<<"u", "r", "n">>)

\* the test on the scheme segment
UrnSchemeOk(scheme) == ToLower(scheme) = Str(<<"u", "r", "n">>)

ParseUrn(urn) ==
    LET strs == Split(urn, Ord(":"))
    IN  IF ~UrnSegmentCountOk(strs) THEN [u |-> ZeroUrn, err |-> ErrMalformedUrn]
        ELSE IF ~UrnSchemeOk(strs[1]) THEN [u |-> ZeroUrn, err |-> ErrMalformedUrn]
        ELSE [u |-> Urn(strs[2], strs[3]), err |-> "nil"]


-----------------------------------------------------------------------------
(* net/url as magnet_link.go uses it *)

IsHex(b) ==
    \/ IsDigit(b)
    \/ (b >= Ord("a") /\ b <= Ord("f"))
    \/ (b >= Ord("A") /\ b <= Ord("F"))

HexValue(b) ==
    IF IsDigit(b) THEN b - Ord("0")
    ELSE IF b >= Ord("a") /\ b <= Ord("f") THEN b - Ord("a") + 10
    ELSE b - Ord("A") + 10

\* every '%' is followed by two hex digits
ValidEscapes(s) ==
    \A i \in 1..Len(s) :
        s[i] = Ord("%") => (i + 2 <= Len(s) /\ IsHex(s[i + 1]) /\ IsHex(s[i + 2]))

RECURSIVE UnescapeFrom(_, _)
UnescapeFrom(s, i) ==
    IF i > Len(s) THEN Empty
    ELSE IF s[i] = Ord("%")
         THEN <<16 * HexValue(s[i + 1]) + HexValue(s[i + 2])>> \o UnescapeFrom(s, i + 3)
    ELSE IF s[i] = Ord("+") THEN <<Ord(" ")>> \o UnescapeFrom(s, i + 1)
    ELSE <<s[i]>> \o UnescapeFrom(s, i + 1)

\* url.QueryUnescape: %XY becomes the byte XY, '+' becomes a space
QueryUnescape(s) ==
    IF ~ValidEscapes(s) THEN [s |-> Empty, err |-> "EscapeError"]
    ELSE IF \A i \in 1..Len(s) : s[i] \notin {Ord("%"), Ord("+")}
         THEN [s |-> s, err |-> "nil"]
    ELSE [s |-> UnescapeFrom(s, 1), err |-> "nil"]

\* strings.Cut(s, sep): the text before and after the first sep
CutBefore(s, sep) ==
    IF SepPositions(s, sep) = {} THEN s
    ELSE SubSeq(s, 1, NthPosition(SepPositions(s, sep), 1) - 1)

CutAfter(s, sep) ==
    IF SepPositions(s, sep) = {} THEN Empty
    ELSE SubSeq(s, NthPosition(SepPositions(s, sep), 1) + 1, Len(s))

IsLetter(b) == (b >= Ord("a") /\ b <= Ord("z")) \/ (b >= Ord("A") /\ b <= Ord("Z"))

\* url.Parse, for a uri without authority and path: a control byte or a
\* leading colon is an error; the scheme is the text before the first colon
\* when it is a letter followed by letters, digits, '+', '-', '.'; the
\* fragment is cut at '#', the query is the text after the first '?'
UrlParse(rawURL) ==
    LET noFrag   == CutBefore(rawURL, Ord("#"))
        head     == CutBefore(noFrag, Ord(":"))
        hasColon == SepPositions(noFrag, Ord(":")) # {}
        schemeOk == /\ hasColon /\ Len(head) > 0 /\ IsLetter(head[1])
                    /\ \A i \in 1..Len(head) :
                          IsLetter(head[i]) \/ IsDigit(head[i])
                          \/ head[i] \in {Ord("+"), Ord("-"), Ord(".")}
        rest     == IF schemeOk THEN CutAfter(noFrag, Ord(":")) ELSE noFrag
    IN  IF \E i \in 1..Len(rawURL) : rawURL[i] < 32 \/ rawURL[i] = 127
        THEN [err |-> "url.Error", Scheme |-> Empty, RawQuery |-> Empty]
        ELSE IF hasColon /\ Len(head) = 0
        THEN [err |-> "url.Error", Scheme |-> Empty, RawQuery |-> Empty]
        ELSE [err |-> "nil",
              Scheme |-> IF schemeOk THEN ToLower(head) ELSE Empty,
              RawQuery |-> CutAfter(rest, Ord("?"))]

\* u.Query(): url.ParseQuery with its error dropped. The pairs are split on
\* '&'; an empty pair, and a pair whose key or value is not validly escaped,
\* is skipped; the values of a key keep their order
Query(rawQuery) ==
    LET pairs  == Split(rawQuery, Ord("&"))
        key(i) == QueryUnescape(CutBefore(pairs[i], Ord("=")))
        val(i) == QueryUnescape(CutAfter(pairs[i], Ord("=")))
        kept   == {i \in 1..Len(pairs) :
                      Len(pairs[i]) > 0 /\ key(i).err = "nil" /\ val(i).err = "nil"}
        idx(k) == {i \in kept : key(i).s = k}
    IN  [k \in {key(i).s : i \in kept} |->
            [n \in 1..Cardinality(idx(k)) |-> val(NthPosition(idx(k), n)).s]]

-----------------------------------------------------------------------------
(* magnet_link.go: ParseMagnetLink *)

ErrMalformedMagnetLink == "Malformed magnet link"
ErrWrongMagnetLinkType == "Wrong magnet link type"

Nil == << >>
Ptr(x) == <<x>>

NoErr == [is |-> "nil", msg |-> ""]
Errorf(is, msg) == [is |-> is, msg |-> msg]

\* var magnetLink MagnetLink
ZeroMagnetLink ==
    [Dn |-> << >>, Xt |-> << >>, Xl |-> << >>, As |-> << >>, Xs |-> << >>,
     Kt |-> << >>, Mt |-> << >>, Tr |-> << >>, So |-> << >>,
     Exps |-> << >>, Unknowns |-> << >>]

\* m[key] = append(m[key], values...), on a map that is made when it is nil
MapAppend(m, key, values) ==
    [k \in DOMAIN m \cup {key} |->
        IF k = key THEN (IF key \in DOMAIN m THEN m[key] ELSE << >>) \o values
        ELSE m[k]]

\* a sequence of sequences flattened
RECURSIVE Flatten(_)
Flatten(ss) == IF Len(ss) = 0 THEN << >> ELSE Head(ss) \o Flatten(Tail(ss))

\* the test on the prefix alone
checkXTPrefixOnly(key) == HasPrefix(key, Str(<<"x", "t">>))

checkIsMagnetLinkXTParameter(key) ==
    IF ~HasPrefix(key, Str(<<"x", "t">>)) THEN FALSE
    ELSE IF key = Str(<<"x", "t">>) THEN TRUE
    ELSE IF Len(key) < 4 THEN FALSE
    ELSE IF key[3] # Ord(".") THEN FALSE
    ELSE Atoi(SubSeq(key, 4, Len(key))).err = "nil"

\* the value appended as the query decomposition left it
NoSecondUnescape(value) == [s |-> value, err |-> "nil"]

\* the second decoding pass of the as and tr arms
SecondUnescape(value) == QueryUnescape(value)

\* the fallback arm without its test of option.Strict
StrictIgnored(option) == FALSE

\* option.Strict as the fallback arm reads it
StrictEnabled(option) == option

\* the key the experimental arm stores under
ExpKey(key) == SubSeq(key, 3, Len(key))

\* the key the fallback arm stores under
UnknownKey(key) == key

\* One iteration of the loop over q: the arm of the lower-cased key applied
\* to all its values. Returns the updated link, or the error of the first
\* value that fails.
VisitKey(link, rawKey, values, option) ==
    LET key  == ToLower(rawKey)
        ok(l) == [link |-> l, err |-> NoErr]
        bad(msg) == [link |-> link, err |-> Errorf(ErrMalformedMagnetLink, msg)]
        S(cs) == Str(cs)
    IN  IF key = S(<<"d", "n">>) THEN ok([link EXCEPT !.Dn = @ \o values])
        ELSE IF checkIsMagnetLinkXTParameter(key) THEN
            IF \E i \in 1..Len(values) : ParseUrn(values[i]).err # "nil"
            THEN bad("Invalid xt")
            ELSE ok([link EXCEPT !.Xt = @ \o [i \in 1..Len(values) |-> ParseUrn(values[i]).u]])
        ELSE IF key = S(<<"x", "l">>) THEN
            IF \E i \in 1..Len(values) : Atoi(values[i]).err # "nil"
            THEN bad("Invalid xl")
            ELSE ok([link EXCEPT !.Xl = @ \o [i \in 1..Len(values) |-> Atoi(values[i]).num]])
        ELSE IF key = S(<<"a", "s">>) THEN
            IF \E i \in 1..Len(values) : SecondUnescape(values[i]).err # "nil"
            THEN bad("Invalid as")
            ELSE ok([link EXCEPT !.As = @ \o [i \in 1..Len(values) |-> SecondUnescape(values[i]).s]])
        ELSE IF key = S(<<"x", "s">>) THEN ok([link EXCEPT !.Xs = @ \o values])
        ELSE IF key = S(<<"k", "t">>) THEN ok([link EXCEPT !.Kt = @ \o values])
        ELSE IF key = S(<<"m", "t">>) THEN ok([link EXCEPT !.Mt = @ \o values])
        ELSE IF key = S(<<"t", "r">>) THEN
            IF \E i \in 1..Len(values) : SecondUnescape(values[i]).err # "nil"
            THEN bad("Invalid tr")
            ELSE ok([link EXCEPT !.Tr = @ \o [i \in 1..Len(values) |-> SecondUnescape(values[i]).s]])
        ELSE IF key = S(<<"s", "o">>) THEN
            LET strs == Flatten([i \in 1..Len(values) |-> Split(values[i], Ord(","))])
            IN  IF \E i \in 1..Len(strs) : ParseNumRangeFromString(strs[i]).err # "nil"
                THEN bad("Invalid so")
                ELSE ok([link EXCEPT !.So = @ \o
                            [i \in 1..Len(strs) |-> ParseNumRangeFromString(strs[i]).r]])
        ELSE IF HasPrefix(key, S(<<"x", ".">>)) THEN
            IF Len(key) <= 2 THEN bad("Invalid experimental parameter")
            ELSE ok([link EXCEPT !.Exps = MapAppend(@, ExpKey(key), values)])
        ELSE
            IF StrictEnabled(option) THEN bad("Uknown parameters")
            ELSE ok([link EXCEPT !.Unknowns = MapAppend(@, UnknownKey(key), values)])

\* for key, values := range q, the keys visited in the given order; the
\* first error ends the loop
RECURSIVE RangeOverQuery(_, _, _, _)
RangeOverQuery(link, q, order, option) ==
    IF Len(order) = 0 THEN [link |-> Ptr(link), err |-> NoErr]
    ELSE LET v == VisitKey(link, Head(order), q[Head(order)], option)
         IN  IF v.err # NoErr THEN [link |-> Nil, err |-> v.err]
             ELSE RangeOverQuery(v.link, q, Tail(order), option)

\* the orders in which a range loop may visit the keys of a map
IterationOrders(q) ==
    LET n == Cardinality(DOMAIN q)
    IN  {o \in [1..n -> DOMAIN q] : \A i, j \in 1..n : i # j => o[i] # o[j]}

\* ParseMagnetLink with the iteration order of the query map given
ParseMagnetLink(u, option, order) ==
    LET parsed == UrlParse(u)
    IN  IF parsed.err # "nil"
        THEN [link |-> Nil, err |-> Errorf(ErrMalformedMagnetLink, parsed.err)]
        ELSE IF ToLower(parsed.Scheme) # Str(<<"m", "a", "g", "n", "e", "t">>)
        THEN [link |-> Nil, err |-> Errorf(ErrMalformedMagnetLink, "Invalid scheme")]
        ELSE RangeOverQuery(ZeroMagnetLink, Query(parsed.RawQuery), order, option)

\* the query map ParseMagnetLink ranges over (empty when it returns earlier)
QueryOf(u) ==
    LET parsed == UrlParse(u)
    IN  IF parsed.err # "nil" \/ ToLower(parsed.Scheme) # Str(<<"m", "a", "g", "n", "e", "t">>)
        THEN << >>
        ELSE Query(parsed.RawQuery)

-----------------------------------------------------------------------------
(* hash.go, and magnet_link.go: AsTorrent *)

HashSHA1 == "sha1"
HashSHA256 == "sha256"

HashValue(type, value) == [Type |-> type, Value |-> value]

\* hex.DecodeString
HexDecodeString(s) ==
    IF Len(s) % 2 # 0 \/ \E i \in 1..Len(s) : ~IsHex(s[i])
    THEN [value |-> Empty, err |-> "hex error"]
    ELSE [value |-> [i \in 1..(Len(s) \div 2) |->
                        16 * HexValue(s[2 * i - 1]) + HexValue(s[2 * i])],
          err |-> "nil"]

\* the standard base32 alphabet: A-Z, 2-7
IsBase32(b) == (b >= Ord("A") /\ b <= Ord("Z")) \/ (b >= Ord("2") /\ b <= Ord("7"))
Base32Value(b) == IF b >= Ord("A") /\ b <= Ord("Z") THEN b - Ord("A") ELSE b - Ord("2") + 26

\* 2 to the power n
RECURSIVE Pow2(_)
Pow2(n) == IF n = 0 THEN 1 ELSE 2 * Pow2(n - 1)

\* bit k (from 0) of the 5-bit groups of the data characters
Base32Bit(data, k) == (Base32Value(data[(k \div 5) + 1]) \div Pow2(4 - (k % 5))) % 2

\* the bytes packed from the data characters; the bits left over are dropped
Base32Bytes(data) ==
    [j \in 1..((5 * Len(data)) \div 8) |->
        Base32Bit(data, 8 * (j - 1)) * 128 + Base32Bit(data, 8 * (j - 1) + 1) * 64
        + Base32Bit(data, 8 * (j - 1) + 2) * 32 + Base32Bit(data, 8 * (j - 1) + 3) * 16
        + Base32Bit(data, 8 * (j - 1) + 4) * 8 + Base32Bit(data, 8 * (j - 1) + 5) * 4
        + Base32Bit(data, 8 * (j - 1) + 6) * 2 + Base32Bit(data, 8 * (j - 1) + 7)]

IsNewline(b) == b = 10 \/ b = 13

\* base32.StdEncoding.DecodeString: '\r' and '\n' are dropped; the rest is
\* read in groups of 8 characters; only the last group may end in 1, 3, 4 or
\* 6 padding characters
Base32DecodeString(s) ==
    LET t     == SelectSeq(s, LAMBDA b : ~IsNewline(b))
        last  == Len(t) - 8           \* the characters before the last group
        pads  == {i \in 1..Len(t) : t[i] = Ord("=")}
        first == IF pads = {} THEN Len(t) + 1 ELSE NthPosition(pads, 1)
        ndata == first - 1
    IN  IF Len(t) % 8 # 0 THEN [value |-> Empty, err |-> "base32 error"]
        ELSE IF \E i \in 1..ndata : ~IsBase32(t[i])
        THEN [value |-> Empty, err |-> "base32 error"]
        ELSE IF pads # {} /\ ( \/ first - last - 1 \notin {2, 4, 5, 7}
                               \/ \E i \in first..Len(t) : t[i] # Ord("=") )
        THEN [value |-> Empty, err |-> "base32 error"]
        ELSE [value |-> Base32Bytes(SubSeq(t, 1, ndata)), err |-> "nil"]

\* the switch on len(xt.Nss)
DecodeBtih(nss) ==
    IF Len(nss) = 32 THEN
        [Type |-> HashSHA1, dec |-> Base32DecodeString(nss), badLength |-> FALSE]
    ELSE IF Len(nss) = 40 THEN
        [Type |-> HashSHA1, dec |-> HexDecodeString(nss), badLength |-> FALSE]
    ELSE IF Len(nss) = 56 THEN
        [Type |-> HashSHA256, dec |-> Base32DecodeString(nss), badLength |-> FALSE]
    ELSE IF Len(nss) = 64 THEN
        [Type |-> HashSHA256, dec |-> HexDecodeString(nss), badLength |-> FALSE]
    ELSE [Type |-> "", dec |-> [value |-> Empty, err |-> "nil"], badLength |-> TRUE]

\* xt.Nid compared without lower-casing it
IsBtihCaseSensitive(xt) == xt.Nid = Str(<<"b", "t", "i", "h">>)

\* strings.ToLower(xt.Nid) == "btih"
IsBtih(xt) == ToLower(xt.Nid) = Str(<<"b", "t", "i", "h">>)

\* the final check failing with the error of the malformed links
NoTorrentAsMalformed == Errorf(ErrMalformedMagnetLink, "No torrent")

\* the error of the final check on the number of hashes
NoTorrentError == Errorf(ErrWrongMagnetLinkType, "No torrent")

\* the loop over l.Xt from entry i on, with the hashes collected so far
RECURSIVE CollectInfoHashs(_, _, _)
CollectInfoHashs(xts, i, hashs) ==
    IF i > Len(xts) THEN [hashs |-> hashs, err |-> NoErr]
    ELSE IF ~IsBtih(xts[i]) THEN CollectInfoHashs(xts, i + 1, hashs)
    ELSE LET d == DecodeBtih(xts[i].Nss)
         IN  IF d.badLength
             THEN [hashs |-> hashs,
                   err |-> Errorf(ErrMalformedMagnetLink, "Cannot decode btih [Bad length]")]
             ELSE IF d.dec.err # "nil"
             THEN [hashs |-> hashs,
                   err |-> Errorf(ErrMalformedMagnetLink, "Cannot decode btih")]
             ELSE CollectInfoHashs(xts, i + 1, Append(hashs, HashValue(d.Type, d.dec.value)))

AsTorrent(l) ==
    LET c == CollectInfoHashs(l.Xt, 1, << >>)
    IN  IF c.err # NoErr THEN [link |-> Nil, err |-> c.err]
        ELSE IF Len(c.hashs) = 0 THEN [link |-> Nil, err |-> NoTorrentError]
        ELSE [link |-> Ptr([MagnetLink |-> l, InfoHashs |-> c.hashs]), err |-> NoErr]

-----------------------------------------------------------------------------
(* Inputs of the two sub-parsers *)

Nums == (0 - MaxNum)..MaxNum

\* the decimal strings, the "a-b" strings, and some strings of other shapes
NumRangeInputs ==
    {Itoa(n) : n \in Nums}
    \cup {Itoa(a) \o <<Ord("-")>> \o Itoa(b) : a \in Nums, b \in Nums}
    \cup {Empty, Str(<<"a">>), Str(<<"1", "-">>), Str(<<"1", "-", "x">>),
          Str(<<"x", "-", "1">>), Str(<<"+", "3">>), Str(<<"1", "-", "2", "-", "3">>),
          Str(<<"0", "7">>), Str(<<"1", " ">>)}

UrnSegments ==
    {Empty, Str(<<"u", "r", "n">>), Str(<<"U", "R", "N">>), Str(<<"U", "r", "n">>),
     Str(<<"u", "r">>), Str(<<"b", "t", "i", "h">>), Str(<<"%", "4", "1">>)}

RECURSIVE SeqsUpTo(_, _)
\* the sequences over S of length 1..n
SeqsUpTo(S, n) ==
    IF n = 0 THEN {}
    ELSE LET shorter == SeqsUpTo(S, n - 1)
         IN  {<<x>> : x \in S} \cup shorter \cup {<<x>> \o t : x \in S, t \in shorter}

UrnInputs == {Join(segs, Ord(":")) : segs \in SeqsUpTo(UrnSegments, MaxSegs)}

-----------------------------------------------------------------------------
(* Specification of the number-range parser *)

InitNumRange ==
    /\ numIn \in NumRangeInputs /\ numOut = NotCalled
    /\ urnIn = Empty /\ urnOut = NotCalled
    /\ uri = Empty /\ strict = FALSE
    /\ ret = NotCalled /\ ret2 = NotCalled /\ torrent = NotCalled

CallParseNumRangeFromString ==
    /\ numOut = NotCalled
    /\ numOut' = [called |-> TRUE] @@ ParseNumRangeFromString(numIn)
    /\ UNCHANGED <<numIn, urnIn, urnOut, uri, strict, ret, ret2, torrent>>

NextNumRange == CallParseNumRangeFromString

SpecNumRange == InitNumRange /\ [][NextNumRange]_vars

-----------------------------------------------------------------------------
(* Specification of the URN parser *)

InitUrn ==
    /\ numIn = Empty /\ numOut = NotCalled
    /\ urnIn \in UrnInputs /\ urnOut = NotCalled
    /\ uri = Empty /\ strict = FALSE
    /\ ret = NotCalled /\ ret2 = NotCalled /\ torrent = NotCalled

CallParseUrn ==
    /\ urnOut = NotCalled
    /\ urnOut' = [called |-> TRUE] @@ ParseUrn(urnIn)
    /\ UNCHANGED <<numIn, numOut, urnIn, uri, strict, ret, ret2, torrent>>

NextUrn == CallParseUrn

SpecUrn == InitUrn /\ [][NextUrn]_vars

-----------------------------------------------------------------------------
(* Inputs of the magnet-link parser *)

MagnetPrefix == Str(<<"m", "a", "g", "n", "e", "t", ":", "?">>)

\* the magnet uris whose query holds up to n of the given key=value pairs
MagnetURIs(pairs, n) ==
    {MagnetPrefix} \cup {MagnetPrefix \o Join(ps, Ord("&")) : ps \in SeqsUpTo(pairs, n)}

XtDot == Str(<<"x", "t", ".">>)

UrnAB == Str(<<"u", "r", "n", ":", "a", ":", "b">>)

\* key=value pairs of the grammar of keys: exact topics, their near misses,
\* experimental and unknown keys
GrammarPairs ==
    {Str(<<"d", "n", "=", "T", "e", "s", "t">>),
     Str(<<"x", "t", "=">>) \o UrnAB,
     Str(<<"x", "t", ".", "1", "=", "U", "R", "N", ":", "c", ":", "d">>),
     Str(<<"X", "T", ".", "0", "7", "=">>) \o UrnAB,
     Str(<<"x", "t", "=", "u", "r", "n", ":", "a">>),
     Str(<<"x", "t", ".", "2", "=", "a", ":", "b", ":", "c">>),
     Str(<<"x", "t", ".", "-", "1", "=", "u", "r", "n", ":", "e", ":", "f">>),
     XtDot \o Repeat(Str(<<"9">>), 20) \o Str(<<"=">>) \o UrnAB,
     Str(<<"x", "t", ".", "=">>) \o UrnAB,
     Str(<<"x", "t", "f", "o", "o", "=">>) \o UrnAB,
     Str(<<"x", "t", ".", "a", "=">>) \o UrnAB,
     Str(<<"f", "o", "o", "=", "b", "a", "r">>),
     Str(<<"F", "o", "o", "=", "b", "a", "z">>),
     Str(<<"x", ".", "f", "o", "o", "=", "1">>),
     Str(<<"x", ".", "=", "1">>),
     Str(<<"s", "o", "=", "3", ",", "4">>)}

OtherURIs ==
    {Str(<<"h", "t", "t", "p", ":", "/", "/", "e", "x", "a", "m", "p", "l", "e", ".", "c", "o", "m">>),
     Str(<<"M", "a", "g", "n", "e", "t", ":", "?", "f", "o", "o", "=", "b", "a", "r">>),
     Str(<<":", "?", "d", "n", "=", "x">>),
     Str(<<"d", "n", "=", "x">>)}

GrammarURIs == MagnetURIs(GrammarPairs, MaxPairs) \cup OtherURIs

TrackerEncoded ==
    Str(<<"h", "t", "t", "p", "%", "3", "A", "%", "2", "F", "%", "2", "F", "t", "r", "a", "c",
          "k", "e", "r", ".", "e", "x", "a", "m", "p", "l", "e", "%", "2", "F", "a", "n", "n",
          "o", "u", "n", "c", "e">>)

TrackerPlain ==
    Str(<<"h", "t", "t", "p", ":", "/", "/", "t", "r", "a", "c", "k", "e", "r", ".", "e", "x",
          "a", "m", "p", "l", "e", "/", "a", "n", "n", "o", "u", "n", "c", "e">>)

\* raw values: encoded once; an encoded '+'; an encoded '%'; an encoded escape
EncodedValues ==
    {TrackerEncoded, Str(<<"a", "%", "2", "B", "b">>), Str(<<"1", "0", "0", "%", "2", "5">>),
     Str(<<"%", "2", "5", "4", "1">>)}

\* key=value pairs of the keys whose values are decoded or copied
DecodePairs ==
    {Str(<<"t", "r", "=">>) \o v : v \in EncodedValues}
    \cup {Str(<<"a", "s", "=">>) \o v : v \in EncodedValues}
    \cup {Str(<<"d", "n", "=", "T", "e", "s", "t">>),
          Str(<<"d", "n", "=", "1", "0", "0", "%", "2", "5">>),
          Str(<<"x", "s", "=", "1", "0", "0", "%", "2", "5">>),
          Str(<<"k", "t", "=", "a", "%", "2", "B", "b">>),
          Str(<<"m", "t", "=", "%", "2", "5", "4", "1">>),
          Str(<<"T", "R", "=", "p", "l", "a", "i", "n">>)}

DecodeURIs == MagnetURIs(DecodePairs, MaxPairs)

\* key=value pairs of which several feed the same field
SharedFieldPairs ==
    {Str(<<"x", "t", "=">>) \o UrnAB,
     Str(<<"x", "t", ".", "1", "=", "u", "r", "n", ":", "c", ":", "d">>),
     Str(<<"d", "n", "=", "A">>),
     Str(<<"D", "N", "=", "B">>),
     Str(<<"f", "o", "o", "=", "1">>),
     Str(<<"F", "O", "O", "=", "2">>),
     Str(<<"x", "l", "=", "x">>),
     Str(<<"x", "l", "=", "7">>)}

SharedFieldURIs == MagnetURIs(SharedFieldPairs, MaxPairs)

-----------------------------------------------------------------------------
(* Actions of the magnet-link parser *)

InitMagnet(uris, options) ==
    /\ numIn = Empty /\ numOut = NotCalled
    /\ urnIn = Empty /\ urnOut = NotCalled
    /\ uri \in uris /\ strict \in options
    /\ ret = NotCalled /\ ret2 = NotCalled /\ torrent = NotCalled

\* a call ParseMagnetLink(uri, WithMagnetLinkParseStrictOption(strict)); the
\* range loop visits the keys of the query map in an order of its choosing
CallParseMagnetLink ==
    /\ ret = NotCalled
    /\ \E order \in IterationOrders(QueryOf(uri)) :
          ret' = [called |-> TRUE] @@ ParseMagnetLink(uri, strict, order)
    /\ UNCHANGED <<numIn, numOut, urnIn, urnOut, uri, strict, ret2, torrent>>

\* a second call with the same arguments
CallParseMagnetLinkAgain ==
    /\ ret # NotCalled /\ ret2 = NotCalled
    /\ \E order \in IterationOrders(QueryOf(uri)) :
          ret2' = [called |-> TRUE] @@ ParseMagnetLink(uri, strict, order)
    /\ UNCHANGED <<numIn, numOut, urnIn, urnOut, uri, strict, ret, torrent>>

\* a call of AsTorrent on the link ParseMagnetLink returned
CallAsTorrent ==
    /\ ret # NotCalled /\ ret.link # Nil /\ torrent = NotCalled
    /\ torrent' = [called |-> TRUE] @@ AsTorrent(ret.link[1])
    /\ UNCHANGED <<numIn, numOut, urnIn, urnOut, uri, strict, ret, ret2>>

\* the parser on the grammar of keys
InitGrammar == InitMagnet(GrammarURIs, BOOLEAN)
NextMagnet == CallParseMagnetLink
SpecMagnet == InitGrammar /\ [][NextMagnet]_vars

\* the parser on the decoded and the copied values
InitDecode == InitMagnet(DecodeURIs, BOOLEAN)
NextDecode == CallParseMagnetLink
SpecDecode == InitDecode /\ [][NextDecode]_vars

\* two runs of the parser on the same arguments
InitTwoRuns == InitMagnet(SharedFieldURIs, BOOLEAN)
NextTwoRuns == CallParseMagnetLink \/ CallParseMagnetLinkAgain
SpecTwoRuns == InitTwoRuns /\ [][NextTwoRuns]_vars

-----------------------------------------------------------------------------
(* Inputs and specification of the torrent specialisation *)

UrnBtih == Str(<<"u", "r", "n", ":", "b", "t", "i", "h", ":">>)

\* 0123456789ABCDEF0123456789ABCDEF01234567
Hex40 ==
    Repeat(Str(<<"0", "1", "2", "3", "4", "5", "6", "7", "8", "9",
                 "A", "B", "C", "D", "E", "F">>), 2)
    \o Str(<<"0", "1", "2", "3", "4", "5", "6", "7">>)

\* the 20 bytes Hex40 stands for
Hex40Bytes ==
    <<1, 35, 69, 103, 137, 171, 205, 239, 1, 35, 69, 103, 137, 171, 205, 239, 1, 35, 69, 103>>

\* urns as xt values: btih in the four accepted encodings, with and without
\* base32 padding, with line breaks, of a wrong length, with characters
\* outside the encoding, and a urn of another namespace
XtValues ==
    {UrnBtih \o Hex40,
     Str(<<"U", "R", "N", ":", "B", "t", "I", "h", ":">>) \o Repeat(Str(<<"a", "b">>), 20),
     UrnBtih \o Repeat(Str(<<"A", "B">>), 16),
     UrnBtih \o Repeat(Str(<<"A">>), 26) \o Repeat(Str(<<"=">>), 6),
     UrnBtih \o Repeat(Str(<<"A">>), 24) \o Repeat(Str(<<"%", "0", "A">>), 8),
     UrnBtih \o Repeat(Str(<<"C">>), 56),
     UrnBtih \o Repeat(Str(<<"D">>), 52) \o Repeat(Str(<<"=">>), 4),
     UrnBtih \o Repeat(Str(<<"0", "f">>), 32),
     UrnBtih \o Str(<<"a", "b", "c">>),
     UrnBtih \o Repeat(Str(<<"g">>), 40),
     UrnBtih \o Repeat(Str(<<"a">>), 32),
     Str(<<"u", "r", "n", ":", "s", "h", "a", "1", ":">>) \o Hex40,
     Str(<<"u", "r", "n", ":", "e", "d", "2", "k", ":", "a", "b", "c">>)}

TorrentURIs == MagnetURIs({Str(<<"x", "t", "=">>) \o v : v \in XtValues}, MaxXt)

InitTorrent == InitMagnet(TorrentURIs, {FALSE})
NextTorrent == CallParseMagnetLink \/ CallAsTorrent
SpecTorrent == InitTorrent /\ [][NextTorrent]_vars

-----------------------------------------------------------------------------
(* Vocabulary of the properties, stated on the text of the inputs *)

\* s equals the lower-case word up to the case of its letters
EqualFold(s, word) ==
    /\ Len(s) = Len(word)
    /\ \A i \in 1..Len(s) : s[i] = word[i] \/ s[i] = word[i] - 32

Colons(s) == {i \in 1..Len(s) : s[i] = Ord(":")}

\* urn:<a>:<b> with any casing of urn
IsUrnString(s) ==
    /\ Cardinality(Colons(s)) = 2
    /\ \E i \in Colons(s) :
           /\ \A j \in Colons(s) : i <= j
           /\ EqualFold(SubSeq(s, 1, i - 1), Str(<<"u", "r", "n">>))

\* the <a> and <b> of urn:<a>:<b>
UrnOfString(s) ==
    LET i == CHOOSE x \in Colons(s) : \A y \in Colons(s) : x <= y
        j == CHOOSE x \in Colons(s) : \A y \in Colons(s) : y <= x
    IN  [Nid |-> SubSeq(s, i + 1, j - 1), Nss |-> SubSeq(s, j + 1, Len(s))]

\* small occurs in big as a run of consecutive elements
ContainsRun(big, small) ==
    \E off \in 0..(Len(big) - Len(small)) :
        \A i \in 1..Len(small) : big[off + i] = small[i]

\* the elements of a set of positions in increasing order
Ascending(P) == [n \in 1..Cardinality(P) |-> NthPosition(P, n)]

\* the number of values the keys K of q have together
ValueCount(q, K) == Cardinality({<<k, i>> \in K \X (1..60) : i <= Len(q[k])})

DigitString(s) == Len(s) > 0 /\ \A i \in 1..Len(s) : IsDigit(s[i])

\* an optional sign and digits, of a value in the range of int
IntegerString(s) ==
    \/ (DigitString(s) /\ ~ExceedsInt(s, FALSE))
    \/ (Len(s) > 1 /\ s[1] \in {Ord("+"), Ord("-")} /\ DigitString(Tail(s))
        /\ ~ExceedsInt(Tail(s), s[1] = Ord("-")))

\* xt, or xt.<N> with <N> a non-empty string of digits
ExactTopicKeyDigits(key) ==
    \/ key = Str(<<"x", "t">>)
    \/ (HasPrefix(key, XtDot) /\ DigitString(SubSeq(key, 4, Len(key))))

\* xt, or xt.<N> with <N> an optional sign and a non-empty string of digits,
\* of a value in the range of int
ExactTopicKeySigned(key) ==
    \/ key = Str(<<"x", "t">>)
    \/ (HasPrefix(key, XtDot) /\ IntegerString(SubSeq(key, 4, Len(key))))

PlainKeys ==
    {Str(<<"d", "n">>), Str(<<"x", "l">>), Str(<<"a", "s">>), Str(<<"x", "s">>),
     Str(<<"k", "t">>), Str(<<"m", "t">>), Str(<<"t", "r">>), Str(<<"s", "o">>)}

\* a lower-cased key of none of the recognized grammars
IsUnknownKey(key) ==
    /\ key \notin PlainKeys
    /\ ~ExactTopicKeySigned(key)
    /\ ~HasPrefix(key, Str(<<"x", ".">>))

HasByte(s, b) == \E i \in 1..Len(s) : s[i] = b

\* some '%' of s is not followed by two hex digits
BadEscape(s) ==
    \E i \in 1..Len(s) :
        s[i] = Ord("%") /\ ~(i + 2 <= Len(s) /\ IsHex(s[i + 1]) /\ IsHex(s[i + 2]))

Failed(r) == r.link = Nil /\ r.err.is = ErrMalformedMagnetLink
Succeeded(r) == r.link # Nil /\ r.err = NoErr

-----------------------------------------------------------------------------
(* Properties *)

\* C1: for all integers a and b, ParseNumRangeFromString on the string
\* "a-b" returns no error and the range {a, b, true, true}.
C1_RangeParses ==
    numOut.called =>
        \A a, b \in Nums :
            numIn = Itoa(a) \o <<Ord("-")>> \o Itoa(b) =>
                numOut.err = "nil" /\ numOut.r = NumRange(a, b, TRUE, TRUE)

\* C2 as stated: for all integers n, negative ones included,
\* ParseNumRangeFromString on the decimal string of n returns no error and
\* the range {n, n, true, true}.
C2_AllIntegers ==
    numOut.called =>
        \A n \in Nums :
            numIn = Itoa(n) =>
                numOut.err = "nil" /\ numOut.r = NumRange(n, n, TRUE, TRUE)

\* C2 amended: for all integers n >= 0, ParseNumRangeFromString on the
\* decimal string of n returns no error and the range {n, n, true, true};
\* on the decimal string of a negative n it returns an error.
C2_NonNegativeIntegers ==
    numOut.called =>
        \A n \in Nums :
            numIn = Itoa(n) =>
                IF n >= 0
                THEN numOut.err = "nil" /\ numOut.r = NumRange(n, n, TRUE, TRUE)
                ELSE numOut.err # "nil"

C2_Witness ==
    numOut.called /\ numIn = Itoa(3) /\ numOut.err = "nil" /\ numOut.r.End = 3

\* C3: two runs of ParseMagnetLink on the same uri and options return equal
\* results and the same success or failure, whatever order the query keys
\* are visited in.
C3_Deterministic ==
    (ret.called /\ ret2.called) =>
        /\ ret.link = ret2.link
        /\ (ret.err = NoErr) = (ret2.err = NoErr)

C5_WrongType ==
    torrent.called =>
        LET xts == ret.link[1].Xt
        IN  /\ (\A i \in 1..Len(xts) : ~EqualFold(xts[i].Nid, Str(<<"b", "t", "i", "h">>)))
                   => (torrent.link = Nil /\ torrent.err.is = ErrWrongMagnetLinkType)
            /\ torrent.link # Nil => Len(torrent.link[1].InfoHashs) > 0

C5_Witness ==
    /\ torrent.called /\ Len(ret.link[1].Xt) = 2
    /\ torrent.link = Nil /\ torrent.err.is = ErrWrongMagnetLinkType

AcceptedLengths == {32, 40, 56, 64}

\* a btih string that cannot decode: of an accepted length, with a character
\* outside the encoding its length selects
Undecodable(nss) ==
    \/ (Len(nss) \in {40, 64} /\ \E i \in 1..Len(nss) : ~IsHex(nss[i]))
    \/ (Len(nss) \in {32, 56}
        /\ \E i \in 1..Len(nss) : ~IsBase32(nss[i]) /\ nss[i] \notin {Ord("="), 10, 13})

\* C6: when AsTorrent succeeds, InfoHashs holds one hash per btih entry of
\* Xt, in the order of those entries, of type SHA1 for a string of length 32
\* or 40 and SHA256 for length 56 or 64; a btih entry of another length, or
\* one that does not decode, makes AsTorrent fail with the
\* malformed-magnet-link error whatever the other entries are.
C6_InfoHashs ==
    torrent.called =>
        LET xts  == ret.link[1].Xt
            btih == Ascending({i \in 1..Len(xts) :
                                  EqualFold(xts[i].Nid, Str(<<"b", "t", "i", "h">>))})
            nss(n) == xts[btih[n]].Nss
        IN  /\ torrent.link # Nil =>
                   /\ Len(torrent.link[1].InfoHashs) = Len(btih)
                   /\ \A n \in 1..Len(btih) :
                          LET h == torrent.link[1].InfoHashs[n]
                          IN  /\ Len(nss(n)) \in AcceptedLengths
                              /\ Len(nss(n)) \in {32, 40} => h.Type = HashSHA1
                              /\ Len(nss(n)) \in {56, 64} => h.Type = HashSHA256
                              /\ nss(n) = Hex40 => h.Value = Hex40Bytes
                              /\ nss(n) = Repeat(Str(<<"0", "f">>), 32)
                                     => h.Value = Repeat(<<15>>, 32)
            /\ (\E n \in 1..Len(btih) :
                    Len(nss(n)) \notin AcceptedLengths \/ Undecodable(nss(n)))
                   => (torrent.link = Nil /\ torrent.err.is = ErrMalformedMagnetLink)

C6_Witness ==
    /\ torrent.called /\ torrent.link # Nil
    /\ Len(torrent.link[1].InfoHashs) = 2
    /\ torrent.link[1].InfoHashs[1].Type = HashSHA256
    /\ torrent.link[1].InfoHashs[2] = HashValue(HashSHA1, Hex40Bytes)

\* C7: ParseUrn succeeds exactly on the strings with two colons whose text
\* before the first colon is urn in any casing, and returns the text between
\* the colons as Nid and the text after the second as Nss, unchanged; on any
\* other string it fails with the malformed-urn error.
C7_ParseUrn ==
    urnOut.called =>
        IF IsUrnString(urnIn)
        THEN urnOut.err = "nil" /\ urnOut.u = UrnOfString(urnIn)
        ELSE urnOut.err = ErrMalformedUrn

C7_Witness ==
    /\ urnOut.called /\ urnOut.err = "nil"
    /\ urnIn = Str(<<"U", "R", "N", ":", "b", "t", "i", "h", ":">>)
    /\ urnOut.u = Urn(Str(<<"b", "t", "i", "h">>), Empty)

\* what a tr or as value decoded once (v) has to give in Tr or As (e)
OnceEncodedGivesPlain(v, e) ==
    /\ ~HasByte(v, Ord("%")) => e = v
    /\ v = Str(<<"%", "4", "1">>) => e = Str(<<"A">>)

PlainGivesPlain(v, e) ==
    /\ (~HasByte(v, Ord("%")) /\ ~HasByte(v, Ord("+"))) => e = v
    /\ v = Str(<<"%", "4", "1">>) => e = Str(<<"A">>)
    /\ v = Str(<<"a", "+", "b">>) => e = Str(<<"a", " ", "b">>)

\* the values of key k occur in the field as a run, each related by Gives
RunGives(field, values, Gives(_, _)) ==
    \E off \in 0..(Len(field) - Len(values)) :
        \A i \in 1..Len(values) : Gives(values[i], field[off + i])

KeysOf(q, word) == {k \in DOMAIN q : ToLower(k) = word}

DecodedTwice(Gives(_, _)) ==
    ret.called =>
        LET q == QueryOf(uri)
            twice == KeysOf(q, Str(<<"t", "r">>)) \cup KeysOf(q, Str(<<"a", "s">>))
            field(l, k) == IF ToLower(k) = Str(<<"t", "r">>) THEN l.Tr
                           ELSE IF ToLower(k) = Str(<<"a", "s">>) THEN l.As
                           ELSE IF ToLower(k) = Str(<<"d", "n">>) THEN l.Dn
                           ELSE IF ToLower(k) = Str(<<"x", "s">>) THEN l.Xs
                           ELSE IF ToLower(k) = Str(<<"k", "t">>) THEN l.Kt
                           ELSE l.Mt
        IN  /\ (\E k \in twice : \E i \in 1..Len(q[k]) : BadEscape(q[k][i])) => Failed(ret)
            /\ (\A k \in twice : \A i \in 1..Len(q[k]) : ~BadEscape(q[k][i])) => Succeeded(ret)
            /\ ret.link # Nil =>
                   /\ \A k \in twice : RunGives(field(ret.link[1], k), q[k], Gives)
                   /\ \A k \in (DOMAIN q) \ twice :
                          ContainsRun(field(ret.link[1], k), q[k])
                   /\ Len(ret.link[1].Tr) = ValueCount(q, KeysOf(q, Str(<<"t", "r">>)))
                   /\ Len(ret.link[1].As) = ValueCount(q, KeysOf(q, Str(<<"a", "s">>)))

\* C8 as stated: every tr and as value, already decoded once by the query
\* decomposition, is unescaped a second time and appended to Tr or As: a
\* value percent-encoded once gives its plain decoded text, a value whose
\* once-decoded form is not valid percent-encoding fails the parse with the
\* malformed-magnet-link error, and the same value under dn, xs, kt or mt
\* is appended once-decoded without failure.
C8_OnceEncoded == DecodedTwice(OnceEncodedGivesPlain)

\* C8 amended: as stated, except that a value percent-encoded once gives its
\* plain decoded text only when that text holds neither '%' nor '+': the
\* second unescape turns a '+' of the decoded text into a space.
C8_PlainText == DecodedTwice(PlainGivesPlain)

C8_Witness ==
    /\ ret.called /\ ret.link # Nil
    /\ ret.link[1].Dn = <<Str(<<"T", "e", "s", "t">>)>>
    /\ ret.link[1].Tr = <<TrackerPlain>>

ExactTopics(IsExactTopicKey(_)) ==
    ret.called =>
        LET q     == QueryOf(uri)
            exact == {k \in DOMAIN q : IsExactTopicKey(ToLower(k))}
            near  == {k \in DOMAIN q :
                         HasPrefix(ToLower(k), Str(<<"x", "t">>)) /\ ~IsExactTopicKey(ToLower(k))}
        IN  /\ (\E k \in exact : \E i \in 1..Len(q[k]) : ~IsUrnString(q[k][i])) => Failed(ret)
            /\ (strict /\ near # {}) => Failed(ret)
            /\ ret.link # Nil =>
                   /\ Len(ret.link[1].Xt) = ValueCount(q, exact)
                   /\ \A k \in exact :
                          ContainsRun(ret.link[1].Xt,
                                      [i \in 1..Len(q[k]) |-> UrnOfString(q[k][i])])
                   /\ \A k \in near :
                          /\ ToLower(k) \in DOMAIN ret.link[1].Unknowns
                          /\ ContainsRun(ret.link[1].Unknowns[ToLower(k)], q[k])

\* C9 as stated: a lower-cased key is an exact-topic key exactly when it is
\* xt or xt.<N> with <N> a non-empty string of digits; each value of such a
\* key is parsed as a Urn and appended to Xt, a value that is no Urn fails
\* the parse with the malformed-magnet-link error; any other key beginning
\* with xt falls through to the unknown parameters.
C9_DigitsOnly == ExactTopics(ExactTopicKeyDigits)

\* C9 amended: as stated, with <N> an optional sign ('+' or '-') followed by
\* a non-empty string of digits, of a value in the range of int, as
\* strconv.Atoi accepts it.
C9_SignedInteger == ExactTopics(ExactTopicKeySigned)

C9_Witness ==
    /\ ret.called /\ ret.link # Nil
    /\ Str(<<"x", "t", ".", "-", "1">>) \in DOMAIN QueryOf(uri)
    /\ Str(<<"X", "T", ".", "0", "7">>) \in DOMAIN QueryOf(uri)
    /\ Len(ret.link[1].Xt) = 2

\* C10: every hash AsTorrent returns has the length of its algorithm: 20
\* bytes for SHA1, 32 bytes for SHA256.
C10_HashLength ==
    (torrent.called /\ torrent.link # Nil) =>
        \A n \in 1..Len(torrent.link[1].InfoHashs) :
            LET h == torrent.link[1].InfoHashs[n]
            IN  /\ h.Type = HashSHA1 => Len(h.Value) = 20
                /\ h.Type = HashSHA256 => Len(h.Value) = 32

====
